---- MODULE Spec2Model ----
(***************************************************************************)
(* A model of DTMFGenerator.py: the DTMF class (sequence validation, tone  *)
(* synthesis, waveform assembly) and the wave container it writes.         *)
(*                                                                         *)
(* Python values are records tagged with their type.  An exception is the  *)
(* name of its class; NoExc stands for a normal return.                    *)
(***************************************************************************)
EXTENDS Integers, Sequences, FiniteSets, TLC

VARIABLES alive, _dtmf_sequence, _raw_data, file, result,
          tone_in, tone_out, valid_in, valid_out

vars == <<alive, _dtmf_sequence, _raw_data, file, result,
          tone_in, tone_out, valid_in, valid_out>>

(***************************************************************************)
(* Python values                                                           *)
(***************************************************************************)
None == [type |-> "NoneType"]

PyStr(s) == [type |-> "str", s |-> s]

PyInt(n) == [type |-> "int", n |-> n]

PyFloat(n) == [type |-> "float", whole |-> n]

PyList(xs) == [type |-> "list", items |-> xs]

PyTuple(xs) == [type |-> "tuple", items |-> xs]

NoExc == "none"

Returned(v) == [exc |-> NoExc, value |-> v]

Raised(e) == [exc |-> e, value |-> None]

(***************************************************************************)
(* Module-level constants                                                  *)
(***************************************************************************)
ROW_FREQ == {697, 770, 852, 941}

COL_FREQ == {1209, 1336, 1477, 1633}

SAMPLE_RATE == 44100

SAMPLE_WIDTH == 2

NUMBER_OF_CHANNELS == 1

COMPRESSION_TYPE == "NONE"

FREQUENCY_MAP ==
    [key \in {"1", "2", "3", "A", "4", "5", "6", "B",
              "7", "8", "9", "C", "*", "0", "#", "D", "S"} |->
        CASE key = "1" -> <<697, 1209>>
          [] key = "2" -> <<697, 1336>>
          [] key = "3" -> <<697, 1477>>
          [] key = "A" -> <<697, 1633>>
          [] key = "4" -> <<770, 1209>>
          [] key = "5" -> <<770, 1336>>
          [] key = "6" -> <<770, 1477>>
          [] key = "B" -> <<770, 1633>>
          [] key = "7" -> <<852, 1209>>
          [] key = "8" -> <<852, 1336>>
          [] key = "9" -> <<852, 1477>>
          [] key = "C" -> <<852, 1633>>
          [] key = "*" -> <<941, 1209>>
          [] key = "0" -> <<941, 1336>>
          [] key = "#" -> <<941, 1477>>
          [] key = "D" -> <<941, 1633>>
          [] key = "S" -> <<0, 0>>]

VALID_SEQUENCE_TYPES == {"list", "tuple", "set"}

(***************************************************************************)
(* int((sin(p * f1 * pi * 2) + sin(p * f2 * pi * 2)) / 2 * scale) with     *)
(* p = i * 1.0 / SAMPLE_RATE and scale = 32767, tabulated for every        *)
(* row/column pair and i = 0 .. 351 (TLA+ has no floating point; the       *)
(* values are those the expression evaluates to in IEEE double             *)
(* precision).  The pair (0, 0) of silence gives 0 for every i.            *)
(***************************************************************************)
SampleTable ==
    (<<697, 1209>> :> <<
       0, 4432, 8765, 12903, 16754, 20234, 23269, 25797, 27769, 29149, 29919, 30075, 29627,
       28603, 27043, 25001, 22541, 19738, 16672, 13428, 10094, 6758, 3503, 408, -2453, -5019,
       -7239, -9074, -10495, -11492, -12065, -12229, -12010, -11448, -10590, -9494, -8223,
       -6845, -5428, -4042, -2752, -1619, -698, -34, 339, 397, 130, -460, -1361, -2544, -3972,
       -5595, -7356, -9191, -11029, -12799, -14426, -15840, -16974, -17767, -18168, -18134,
       -17635, -16655, -15192, -13255, -10870, -8077, -4928, -1487, 2172, 5968, 9811, 13611,
       17274, 20709, 23828, 26550, 28803, 30525, 31667, 32194, 32085, 31337, 29961, 27984,
       25448, 22409, 18935, 15106, 11008, 6737, 2388, -1939, -6148, -10146, -13846, -17172,
       -20057, -22445, -24297, -25587, -26303, -26451, -26048, -25128, -23737, -21932, -19780,
       -17354, -14733, -11998, -9232, -6513, -3917, -1511, 643, 2500, 4020, 5178, 5962, 6375,
       6429, 6153, 5582, 4766, 3759, 2623, 1425, 231, -891, -1878, -2671, -3219, -3477, -3415,
       -3010, -2255, -1155, 272, 1998, 3979, 6163, 8488, 10884, 13278, 15590, 17744, 19663,
       21273, 22510, 23315, 23642, 23455, 22732, 21468, 19668, 17356, 14568, 11354, 7778, 3913,
       -156, -4341, -8547, -12676, -16633, -20325, -23663, -26569, -28973, -30818, -32060,
       -32670, -32635, -31957, -30656, -28764, -26330, -23415, -20091, -16441, -12552, -8518,
       -4434, -396, 3504, 7182, 10558, 13564, 16142, 18248, 19852, 20938, 21505, 21567, 21149,
       20292, 19046, 17471, 15635, 13610, 11472, 9298, 7160, 5130, 3271, 1639, 278, -775,
       -1501, -1889, -1942, -1677, -1121, -315, 694, 1849, 3088, 4344, 5550, 6637, 7543, 8207,
       8579, 8616, 8287, 7570, 6461, 4964, 3099, 901, -1587, -4309, -7198, -10180, -13177,
       -16104, -18878, -21416, -23639, -25474, -26856, -27732, -28060, -27810, -26971, -25542,
       -23541, -21000, -17965, -14495, -10663, -6551, -2247, 2152, 6549, 10845, 14942, 18749,
       22180, 25160, 27624, 29521, 30813, 31479, 31513, 30925, 29739, 27994, 25745, 23055,
       20000, 16660, 13125, 9484, 5828, 2246, -1177, -4365, -7251, -9776, -11895, -13575,
       -14798, -15561, -15871, -15753, -15242, -14382, -13231, -11850, -10306, -8672, -7018,
       -5414, -3926, -2612, -1525, -706, -186, 16, -104, -542, -1278, -2280, -3508, -4908,
       -6422, -7985, -9527, -10978, -12269, -13331, -14105, -14537, -14581, -14206, -13389,
       -12123, -10415, -8284, -5763, -2900, 246, 3608, 7109, 10663, 14184, 17581, 20765, 23650,
       26157, 28213, 29757, 30737, 31119, 30880, 30014, 28531, 26455, 23827, 20700, 17142,
       13231, 9052, 4701, 274, -4129, -8410, -12475, -16235>>) @@
    (<<697, 1336>> :> <<
       0, 4724, 9320, 13664, 17641, 21147, 24095, 26413, 28053, 28987, 29209, 28737, 27608,
       25882, 23635, 20957, 17951, 14727, 11399, 8079, 4876, 1891, -787, -3086, -4947, -6334,
       -7229, -7634, -7572, -7084, -6229, -5080, -3720, -2241, -739, 688, 1951, 2962, 3647,
       3947, 3816, 3230, 2182, 687, -1222, -3492, -6054, -8824, -11704, -14591, -17377, -19952,
       -22209, -24052, -25393, -26159, -26295, -25765, -24556, -22675, -20153, -17039, -13406,
       -9343, -4954, -355, 4329, 8973, 13449, 17634, 21413, 24686, 27366, 29385, 30697, 31276,
       31122, 30253, 28712, 26563, 23884, 20771, 17330, 13676, 9926, 6197, 2604, -750, -3774,
       -6389, -8534, -10170, -11276, -11851, -11918, -11515, -10701, -9546, -8136, -6561,
       -4920, -3310, -1824, -552, 429, 1058, 1287, 1084, 442, -631, -2106, -3934, -6050, -8374,
       -10815, -13274, -15645, -17824, -19708, -21203, -22225, -22705, -22590, -21846, -20462,
       -18445, -15828, -12663, -9020, -4990, -675, 3808, 8339, 12790, 17037, 20959, 24444,
       27394, 29725, 31373, 32294, 32467, 31894, 30599, 28628, 26047, 22942, 19410, 15562,
       11517, 7396, 3320, -593, -4238, -7518, -10353, -12681, -14458, -15663, -16294, -16372,
       -15936, -15043, -13766, -12190, -10409, -8522, -6629, -4826, -3206, -1849, -821, -176,
       53, -146, -771, -1797, -3180, -4859, -6759, -8794, -10867, -12878, -14725, -16309,
       -17540, -18335, -18626, -18364, -17515, -16068, -14033, -11440, -8341, -4807, -926,
       3200, 7460, 11731, 15892, 19819, 23394, 26510, 29072, 30999, 32231, 32728, 32473, 31471,
       29751, 27363, 24377, 20881, 16978, 12782, 8414, 3999, -337, -4479, -8313, -11744,
       -14689, -17084, -18886, -20071, -20639, -20610, -20025, -18941, -17434, -15591, -13507,
       -11286, -9029, -6839, -4809, -3025, -1559, -467, 212, 460, 277, -316, -1283, -2565,
       -4093, -5783, -7542, -9273, -10877, -12258, -13326, -14001, -14217, -13923, -13087,
       -11696, -9760, -7309, -4391, -1077, 2549, 6387, 10329, 14255, 18047, 21586, 24758,
       27457, 29594, 31092, 31895, 31966, 31293, 29885, 27774, 25013, 21677, 17856, 13656,
       9195, 4596, -13, -4507, -8766, -12677, -16142, -19078, -21422, -23130, -24179, -24571,
       -24326, -23488, -22116, -20288, -18094, -15634, -13014, -10339, -7717, -5246, -3015,
       -1101, 434, 1549, 2219, 2441, 2229, 1620, 665, -567, -1998, -3537, -5089, -6557, -7846,
       -8867, -9540, -9798, -9591, -8884, -7666, -5941, -3738, -1104, 1895, 5178, 8649, 12202,
       15723, 19096, 22207, 24946, 27213, 28921, 29997, 30389, 30065, 29016, 27253, 24813,
       21752, 18147, 14090, 9691, 5068, 346, -4345, -8881, -13138, -17007>>) @@
    (<<697, 1477>> :> <<
       0, 5046, 9926, 14478, 18557, 22033, 24806, 26798, 27968, 28305, 27830, 26598, 24690,
       22215, 19299, 16084, 12719, 9354, 6133, 3191, 641, -1422, -2935, -3860, -4189, -3948,
       -3189, -1991, -455, 1297, 3139, 4933, 6545, 7847, 8728, 9093, 8872, 8025, 6538, 4431,
       1753, -1415, -4972, -8791, -12729, -16634, -20350, -23724, -26612, -28886, -30441,
       -31196, -31102, -30140, -28327, -25712, -22372, -18417, -13977, -9200, -4249, 710, 5513,
       10002, 14034, 17488, 20266, 22300, 23554, 24022, 23733, 22745, 21142, 19035, 16550,
       13826, 11008, 8239, 5656, 3382, 1520, 149, -675, -933, -629, 197, 1482, 3137, 5050,
       7096, 9139, 11042, 12670, 13899, 14621, 14748, 14219, 13001, 11094, 8528, 5364, 1691,
       -2375, -6701, -11135, -15519, -19691, -23495, -26786, -29436, -31341, -32422, -32635,
       -31964, -30431, -28086, -25014, -21325, -17150, -12640, -7954, -3258, 1288, 5534, 9342,
       12597, 15211, 17123, 18306, 18762, 18525, 17661, 16257, 14426, 12294, 9999, 7680, 5476,
       3514, 1906, 745, 96, 0, 465, 1470, 2963, 4868, 7084, 9490, 11952, 14332, 16486, 18280,
       19590, 20313, 20365, 19693, 18273, 16112, 13250, 9758, 5734, 1302, -3395, -8202, -12953,
       -17485, -21639, -25269, -28250, -30477, -31878, -32409, -32061, -30856, -28852, -26133,
       -22812, -19021, -14908, -10630, -6349, -2218, 1617, 5029, 7913, 10190, 11810, 12754,
       13034, 12694, 11805, 10460, 8775, 6878, 4903, 2989, 1267, -143, -1140, -1642, -1596,
       -977, 210, 1931, 4121, 6689, 9523, 12494, 15458, 18272, 20788, 22871, 24397, 25265,
       25396, 24742, 23286, 21043, 18059, 14414, 10214, 5588, 684, -4334, -9303, -14056,
       -18434, -22292, -25507, -27978, -29637, -30445, -30396, -29517, -27868, -25537, -22636,
       -19297, -15667, -11899, -8147, -4558, -1269, 1602, 3963, 5745, 6911, 7453, 7394, 6787,
       5712, 4269, 2578, 768, -1024, -2665, -4029, -5002, -5491, -5427, -4767, -3500, -1643,
       752, 3612, 6832, 10289, 13843, 17346, 20644, 23590, 26045, 27885, 29010, 29347, 28850,
       27508, 25342, 22405, 18782, 14584, 9944, 5016, -37, -5049, -9854, -14295, -18232,
       -21544, -24137, -25946, -26938, -27113, -26503, -25171, -23206, -20724, -17854, -14740,
       -11531, -8373, -5407, -2757, -531, 1189, 2350, 2927, 2925, 2380, 1355, -60, -1758,
       -3614, -5494, -7261, -8784, -9939, -10620, -10740, -10241, -9092, -7291, -4870, -1891,
       1558, 5364, 9392, 13495, 17516, 21298, 24689, 27548, 29753, 31205, 31832, 31594, 30484,
       28527, 25781, 22335, 18303, 13824, 9049, 4142, -730, -5407, -9735, -13578, -16822,
       -19380, -21195>>) @@
    (<<697, 1633>> :> <<
       0, 5401, 10584, 15338, 19477, 22846, 25328, 26849, 27386, 26961, 25646, 23553, 20832,
       17658, 14226, 10736, 7388, 4362, 1818, -118, -1364, -1875, -1658, -762, 720, 2661, 4899,
       7257, 9544, 11571, 13162, 14160, 14440, 13917, 12545, 10330, 7321, 3615, -651, -5309,
       -10163, -15003, -19611, -23782, -27322, -30070, -31898, -32720, -32500, -31249, -29027,
       -25939, -22130, -17778, -13083, -8257, -3514, 940, 4924, 8282, 10897, 12694, 13646,
       13771, 13135, 11844, 10037, 7882, 5564, 3272, 1193, -503, -1671, -2200, -2016, -1093,
       551, 2854, 5710, 8975, 12477, 16026, 19419, 22458, 24954, 26742, 27691, 27705, 26736,
       24783, 21894, 18163, 13726, 8755, 3447, -1980, -7308, -12320, -16818, -20627, -23610,
       -25670, -26757, -26870, -26054, -24400, -22039, -19134, -15871, -12448, -9064, -5912,
       -3162, -958, 594, 1431, 1534, 930, -310, -2075, -4219, -6573, -8949, -11158, -13014,
       -14349, -15021, -14922, -13986, -12192, -9567, -6184, -2158, 2355, 7174, 12093, 16898,
       21374, 25320, 28556, 30935, 32349, 32734, 32077, 30410, 27817, 24422, 20385, 15896,
       11162, 6396, 1809, -2402, -6070, -9056, -11263, -12639, -13179, -12925, -11961, -10412,
       -8431, -6196, -3894, -1714, 162, 1579, 2405, 2547, 1954, 622, -1409, -4054, -7188,
       -10652, -14264, -17825, -21133, -23991, -26222, -27674, -28231, -27821, -26417, -24041,
       -20763, -16698, -12000, -6855, -1469, 3937, 9145, 13945, 18149, 21599, 24177, 25807,
       26463, 26164, 24980, 23020, 20431, 17387, 14082, 10714, 7482, 4566, 2125, 284, -870,
       -1296, -998, -24, 1531, 3542, 5848, 8271, 10619, 12703, 14345, 15388, 15705, 15207,
       13851, 11638, 8616, 4882, 569, -4152, -9086, -14023, -18746, -23044, -26726, -29625,
       -31611, -32598, -32543, -31456, -29393, -26457, -22790, -18568, -13988, -9262, -4603,
       -215, 3717, 7040, 9634, 11425, 12382, 12524, 11913, 10654, 8886, 6776, 4507, 2268, 246,
       -1389, -2493, -2952, -2693, -1689, 44, 2443, 5402, 8779, 12401, 16076, 19602, 22777,
       25413, 27341, 28428, 28575, 27732, 25895, 23109, 19466, 15100, 10181, 4905, -511, -5849,
       -10892, -15440, -19317, -22384, -24542, -25739, -25971, -25280, -23755, -21524, -18749,
       -15613, -12313, -9048, -6008, -3365, -1262, 195, 943, 960, 274, -1044, -2885, -5102,
       -7526, -9970, -12242, -14157, -15545, -16263, -16201, -15292, -13512, -10887, -7488,
       -3430, 1133, 6020, 11024, 15930, 20525, 24603, 27983, 30516, 32091, 32641, 32148, 30644,
       28208, 24961, 21063, 16699, 12076, 7406, 2898, -1250, -4870, -7824, -10012, -11383,
       -11929, -11690, -10751, -9232, -7289, -5095>>) @@
    (<<770, 1209>> :> <<
       0, 4601, 9099, 13389, 17377, 20972, 24097, 26685, 28682, 30053, 30774, 30841, 30263,
       29069, 27299, 25009, 22266, 19147, 15737, 12125, 8406, 4671, 1013, -2484, -5740, -8687,
       -11264, -13427, -15140, -16385, -17156, -17463, -17327, -16781, -15872, -14652, -13184,
       -11534, -9771, -7966, -6185, -4495, -2953, -1610, -507, 324, 866, 1110, 1061, 735, 161,
       -623, -1572, -2632, -3745, -4847, -5878, -6774, -7478, -7938, -8109, -7955, -7452,
       -6584, -5353, -3769, -1858, 342, 2785, 5412, 8156, 10941, 13690, 16321, 18753, 20909,
       22713, 24101, 25013, 25405, 25243, 24508, 23194, 21315, 18894, 15974, 12610, 8870, 4833,
       588, -3770, -8142, -12426, -16520, -20328, -23757, -26724, -29158, -31000, -32203,
       -32738, -32592, -31768, -30287, -28184, -25510, -22331, -18722, -14772, -10574, -6227,
       -1834, 2504, 6689, 10627, 14233, 17433, 20162, 22372, 24025, 25103, 25599, 25526, 24907,
       23781, 22199, 20223, 17921, 15372, 12654, 9849, 7038, 4300, 1705, -681, -2804, -4619,
       -6093, -7206, -7951, -8333, -8370, -8091, -7535, -6750, -5791, -4718, -3593, -2479,
       -1436, -523, 209, 718, 969, 938, 612, -9, -914, -2080, -3471, -5044, -6745, -8513,
       -10283, -11985, -13550, -14910, -16001, -16763, -17146, -17109, -16623, -15670, -14248,
       -12367, -10052, -7340, -4284, -946, 2599, 6273, 9986, 13647, 17163, 20442, 23396, 25943,
       28010, 29535, 30467, 30772, 30428, 29432, 27794, 25544, 22726, 19397, 15629, 11504,
       7116, 2564, -2050, -6621, -11045, -15221, -19055, -22464, -25372, -27718, -29457,
       -30555, -30998, -30788, -29941, -28490, -26483, -23980, -21052, -17781, -14253, -10562,
       -6799, -3058, 570, 4004, 7166, 9992, 12426, 14427, 15966, 17030, 17619, 17746, 17438,
       16733, 15681, 14339, 12770, 11043, 9228, 7395, 5610, 3938, 2433, 1144, 109, -646, -1105,
       -1266, -1138, -740, -104, 727, 1707, 2779, 3884, 4958, 5940, 6769, 7389, 7750, 7811,
       7539, 6914, 5927, 4582, 2895, 896, -1375, -3865, -6513, -9249, -11997, -14678, -17211,
       -19516, -21516, -23141, -24327, -25021, -25184, -24786, -23814, -22269, -20170, -17547,
       -14448, -10933, -7074, -2954, 1334, 5696, 10029, 14232, 18206, 21855, 25090, 27834,
       30019, 31591, 32511, 32755, 32318, 31210, 29456, 27099, 24197, 20818, 17045, 12968,
       8682, 4290, -105, -4406, -8513, -12337, -15796, -18819, -21347, -23337, -24758, -25597,
       -25854, -25546, -24703, -23369, -21600, -19461, -17024, -14368, -11575, -8726, -5902,
       -3179, -627, 1693, 3729, 5441, 6800, 7791, 8412, 8671, 8592, 8207, 7559, 6699, 5683,
       4573, 3431, 2321, 1301, 429>>) @@
    (<<770, 1336>> :> <<
       0, 4893, 9653, 14150, 18264, 21886, 24923, 27301, 28967, 29891, 30064, 29503, 28245,
       26348, 23891, 20965, 17676, 14136, 10463, 6776, 3188, -194, -3277, -5978, -8235, -10002,
       -11254, -11987, -12216, -11977, -11320, -10314, -9036, -7574, -6021, -4469, -3010,
       -1727, -695, 23, 383, 354, -71, -888, -2068, -3565, -5319, -7253, -9282, -11311, -13243,
       -14979, -16425, -17493, -18108, -18207, -17746, -16699, -15061, -12847, -10094, -6861,
       -3223, 727, 4883, 9129, 13341, 17393, 21164, 24534, 27397, 29659, 31244, 32095, 32176,
       31476, 30007, 27803, 24922, 21443, 17460, 13084, 8439, 3653, -1140, -5811, -10233,
       -14289, -17876, -20907, -23314, -25050, -26090, -26433, -26098, -25126, -23579, -21532,
       -19079, -16319, -13361, -10315, -7290, -4388, -1705, 677, 2693, 4294, 5450, 6148, 6399,
       6230, 5686, 4828, 3728, 2471, 1143, -161, -1356, -2356, -3085, -3481, -3494, -3092,
       -2263, -1012, 634, 2634, 4925, 7432, 10064, 12725, 15311, 17715, 19833, 21570, 22835,
       23556, 23673, 23148, 21962, 20117, 17639, 14575, 10992, 6977, 2632, -1928, -6580,
       -11193, -15637, -19784, -23516, -26723, -29313, -31210, -32359, -32729, -32311, -31120,
       -29195, -26594, -23400, -19707, -15628, -11283, -6799, -2305, 2073, 6216, 10015, 13373,
       16213, 18475, 20121, 21133, 21518, 21299, 20524, 19255, 17571, 15560, 13321, 10956,
       8567, 6252, 4103, 2201, 612, -611, -1438, -1852, -1860, -1485, -768, 232, 1448, 2796,
       4190, 5537, 6747, 7733, 8416, 8729, 8617, 8044, 6991, 5461, 3473, 1070, -1690, -4732,
       -7964, -11285, -14586, -17753, -20674, -23240, -25348, -26912, -27856, -28126, -27686,
       -26523, -24647, -22089, -18905, -15169, -10975, -6432, -1660, 3210, 8047, 12717, 17092,
       21053, 24491, 27316, 29455, 30857, 31495, 31362, 30478, 28882, 26638, 23826, 20541,
       16894, 13001, 8984, 4965, 1063, -2610, -5959, -8896, -11355, -13287, -14665, -15482,
       -15752, -15507, -14799, -13696, -12276, -10629, -8848, -7031, -5271, -3656, -2265,
       -1166, -409, -30, -45, -451, -1226, -2331, -3710, -5294, -6999, -8737, -10413, -11932,
       -13202, -14137, -14663, -14719, -14258, -13254, -11702, -9613, -7025, -3990, -582, 3108,
       6981, 10922, 14812, 18531, 21958, 24979, 27493, 29407, 30650, 31168, 30929, 29924,
       28168, 25698, 22574, 18876, 14701, 10164, 5387, 501, -4358, -9061, -13480, -17498,
       -21012, -23934, -26197, -27756, -28586, -28688, -28082, -26814, -24946, -22559, -19747,
       -16617, -13281, -9852, -6446, -3170, -123, 2606, 4949, 6851, 8276, 9210, 9658, 9644,
       9211, 8419, 7337, 6050, 4645, 3215, 1850, 638, -342>>) @@
    (<<770, 1477>> :> <<
       0, 5216, 10259, 14964, 19179, 22772, 25633, 27686, 28882, 29208, 28685, 27364, 25327,
       22681, 19555, 16092, 12443, 8762, 5198, 1888, -1046, -3508, -5425, -6752, -7477, -7615,
       -7214, -6344, -5100, -3594, -1951, -300, 1228, 2513, 3446, 3934, 3911, 3335, 2194, 507,
       -1679, -4291, -7227, -10367, -13575, -16707, -19615, -22154, -24190, -25606, -26307,
       -26224, -25317, -23582, -21043, -17760, -13824, -9351, -4481, 628, 5808, 10888, 15696,
       20073, 23873, 26973, 29278, 30720, 31268, 30922, 29717, 27718, 25021, 21745, 18030,
       14026, 9893, 5790, 1866, -1737, -4903, -7536, -9566, -10955, -11697, -11812, -11354,
       -10401, -9051, -7421, -5639, -3837, -2143, -681, 441, 1137, 1341, 1015, 152, -1228,
       -3076, -5313, -7840, -10537, -13271, -15901, -18284, -20285, -21778, -22656, -22835,
       -22258, -20899, -18762, -15886, -12341, -8225, -3662, 1201, 6206, 11185, 15966, 20385,
       24288, 27540, 30030, 31674, 32421, 32253, 31184, 29266, 26578, 23229, 19351, 15091,
       10609, 6071, 1638, -2537, -6317, -9587, -12253, -14254, -15558, -16165, -16106, -15440,
       -14254, -12652, -10757, -8701, -6619, -4642, -2894, -1481, -490, 15, 2, -535, -1575,
       -3064, -4924, -7054, -9337, -11640, -13827, -15762, -17315, -18369, -18826, -18613,
       -17683, -16020, -13639, -10589, -6947, -2818, 1667, 6362, 11107, 15734, 20078, 23981,
       27298, 29906, 31706, 32629, 32638, 31731, 29938, 27325, 23985, 20040, 15631, 10917,
       6062, 1237, -3395, -7684, -11494, -14713, -17257, -19071, -20132, -20450, -20065,
       -19046, -17487, -15503, -13222, -10782, -8321, -5974, -3866, -2103, -771, 68, 384, 173,
       -538, -1697, -3222, -5013, -6952, -8910, -10754, -12351, -13578, -14326, -14504, -14048,
       -12919, -11111, -8648, -5585, -2005, 1979, 6239, 10625, 14977, 19135, 22937, 26236,
       28896, 30807, 31883, 32070, 31348, 29727, 27256, 24012, 20103, 15661, 10837, 5795, 707,
       -4257, -8934, -13176, -16851, -19857, -22116, -23584, -24249, -24132, -23284, -21785,
       -19739, -17270, -14514, -11614, -8714, -5952, -3454, -1326, 346, 1505, 2120, 2192, 1749,
       849, -425, -1974, -3677, -5408, -7036, -8431, -9475, -10065, -10116, -9571, -8400,
       -6602, -4207, -1277, 2099, 5810, 9723, 13690, 17557, 21166, 24366, 27016, 28994, 30202,
       30569, 30056, 28654, 26394, 23334, 19566, 15209, 10404, 5311, 97, -5062, -9999, -14552,
       -18578, -21954, -24585, -26405, -27382, -27516, -26840, -25419, -23345, -20732, -17713,
       -14433, -11042, -7688, -4511, -1639, 821, 2787, 4204, 5045, 5312, 5041, 4291, 3148,
       1716, 114, -1529, -3084, -4425, -5436, -6017, -6090, -5603, -4531>>) @@
    (<<770, 1633>> :> <<
       0, 5571, 10917, 15824, 20100, 23584, 26155, 27737, 28299, 27865, 26501, 24319, 21468,
       18124, 14482, 10745, 7112, 3771, 883, -1421, -3052, -3962, -4148, -3654, -2566, -1006,
       874, 2904, 4899, 6679, 8071, 8926, 9124, 8583, 7263, 5171, 2360, -1073, -4994, -9233,
       -13597, -17878, -21866, -25358, -28169, -30143, -31162, -31149, -30078, -27969, -24893,
       -20966, -16346, -11219, -5798, -306, 5033, 10006, 14420, 18111, 20955, 22872, 23829,
       23842, 22974, 21329, 19048, 16302, 13279, 10173, 7177, 4470, 2206, 509, -537, -893,
       -562, 405, 1920, 3855, 6053, 8340, 10528, 12435, 13887, 14733, 14853, 14166, 12634,
       10265, 7114, 3283, -1088, -5826, -10731, -15591, -20186, -24307, -27761, -30385, -32051,
       -32675, -32222, -30706, -28189, -24782, -20632, -15924, -10863, -5667, -559, 4251, 8573,
       12244, 15139, 17177, 18324, 18592, 18041, 16771, 14920, 12651, 10146, 7595, 5184, 3083,
       1442, 375, -39, 229, 1172, 2733, 4813, 7280, 9970, 12704, 15288, 17536, 19268, 20332,
       20603, 19999, 18480, 16053, 12775, 8747, 4112, -952, -6246, -11548, -16637, -21296,
       -25325, -28555, -30850, -32119, -32317, -31450, -29573, -26787, -23235, -19090, -14553,
       -9835, -5152, -711, 3302, 6729, 9447, 11377, 12486, 12785, 12335, 11233, 9614, 7640,
       5489, 3346, 1391, -207, -1308, -1803, -1621, -735, 835, 3029, 5740, 8827, 12121, 15434,
       18567, 21325, 23525, 25005, 25638, 25336, 24055, 21800, 18623, 14625, 9949, 4770, -706,
       -6260, -11667, -16704, -21170, -24886, -27713, -29551, -30350, -30107, -28870, -26732,
       -23825, -20319, -16403, -12283, -8166, -4253, -723, 2268, 4605, 6214, 7062, 7166, 6587,
       5424, 3813, 1915, -92, -2027, -3711, -4979, -5693, -5749, -5081, -3667, -1533, 1252,
       4577, 8294, 12226, 16177, 19942, 23316, 26109, 28154, 29315, 29496, 28649, 26773, 23915,
       20172, 15681, 10618, 5185, -397, -5904, -11113, -15819, -19842, -23037, -25299, -26574,
       -26852, -26174, -24626, -22334, -19459, -16182, -12703, -9220, -5926, -2995, -572, 1230,
       2344, 2745, 2453, 1534, 91, -1737, -3788, -5883, -7836, -9469, -10619, -11149, -10956,
       -9977, -8193, -5634, -2374, 1469, 5745, 10267, 14833, 19231, 23249, 26688, 29373, 31161,
       31948, 31677, 30340, 27979, 24682, 20583, 15850, 10684, 5299, -79, -5232, -9954, -14064,
       -17416, -19905, -21471, -22101, -21831, -20743, -18956, -16625, -13925, -11047, -8184,
       -5521, -3224, -1433, -249, 263, 87, -748, -2175, -4082, -6326, -8739, -11137, -13333,
       -15144, -16406, -16978, -16759, -15684, -13737, -10947, -7391, -3190, 1499, 6488, 11568>>) @@
    (<<852, 1209>> :> <<
       0, 4792, 9471, 13929, 18062, 21774, 24980, 27609, 29604, 30925, 31546, 31462, 30684,
       29240, 27174, 24546, 21427, 17901, 14061, 10003, 5830, 1644, -2453, -6369, -10012,
       -13303, -16175, -18572, -20452, -21789, -22571, -22801, -22499, -21696, -20436, -18774,
       -16775, -14509, -12051, -9479, -6871, -4300, -1837, 453, 2518, 4311, 5798, 6956, 7776,
       8258, 8415, 8271, 7860, 7224, 6410, 5472, 4466, 3447, 2471, 1589, 848, 287, -62, -179,
       -52, 318, 924, 1742, 2744, 3889, 5130, 6414, 7685, 8882, 9946, 10820, 11451, 11791,
       11801, 11451, 10723, 9607, 8111, 6252, 4060, 1578, -1140, -4033, -7027, -10045, -13004,
       -15823, -18416, -20705, -22614, -24076, -25036, -25448, -25279, -24514, -23151, -21204,
       -18702, -15691, -12232, -8396, -4268, 57, 4482, 8900, 13205, 17292, 21059, 24412, 27264,
       29543, 31188, 32152, 32408, 31945, 30769, 28903, 26389, 23286, 19664, 15608, 11215,
       6588, 1835, -2929, -7596, -12055, -16205, -19951, -23210, -25910, -27997, -29430,
       -30187, -30261, -29663, -28421, -26578, -24193, -21334, -18083, -14528, -10763, -6885,
       -2992, 821, 4464, 7854, 10917, 13590, 15823, 17579, 18836, 19587, 19836, 19605, 18926,
       17842, 16408, 14684, 12739, 10641, 8464, 6277, 4149, 2140, 306, -1306, -2662, -3735,
       -4512, -4988, -5175, -5090, -4763, -4232, -3541, -2741, -1884, -1026, -219, 483, 1037,
       1402, 1545, 1444, 1086, 470, -396, -1493, -2789, -4245, -5812, -7437, -9058, -10613,
       -12038, -13270, -14249, -14921, -15240, -15167, -14677, -13753, -12393, -10610, -8427,
       -5881, -3024, 84, 3372, 6760, 10165, 13497, 16666, 19584, 22165, 24333, 26017, 27159,
       27712, 27645, 26941, 25600, 23639, 21090, 18001, 14436, 10471, 6194, 1701, -2902, -7509,
       -12009, -16295, -20262, -23815, -26865, -29337, -31170, -32319, -32753, -32461, -31451,
       -29744, -27384, -24427, -20945, -17022, -12754, -8242, -3594, 1077, 5665, 10061, 14165,
       17886, 21141, 23863, 25997, 27505, 28367, 28575, 28142, 27095, 25477, 23343, 20761,
       17808, 14569, 11133, 7593, 4040, 563, -2753, -5832, -8609, -11024, -13036, -14612,
       -15736, -16403, -16623, -16419, -15825, -14884, -13649, -12180, -10539, -8793, -7006,
       -5245, -3566, -2026, -669, 467, 1356, 1981, 2337, 2430, 2278, 1905, 1348, 648, -144,
       -979, -1802, -2558, -3196, -3669, -3934, -3958, -3715, -3191, -2380, -1291, 57, 1637,
       3409, 5323, 7323, 9346, 11325, 13190, 14874, 16309, 17434, 18191, 18536, 18431, 17851,
       16786, 15237, 13221, 10767, 7921, 4737, 1286, -2355, -6101, -9860, -13538, -17038,
       -20267, -23138, -25566, -27482>>) @@
    (<<852, 1336>> :> <<
       0, 5083, 10026, 14690, 18949, 22687, 25806, 28225, 29889, 30762, 30836, 30124, 28665,
       26519, 23766, 20501, 16837, 12890, 8787, 4654, 612, -3222, -6744, -9863, -12506, -14618,
       -16164, -17132, -17528, -17380, -16734, -15652, -14209, -12489, -10585, -8591, -6600,
       -4701, -2975, -1490, -302, 549, 1043, 1174, 956, 420, -387, -1406, -2567, -3789, -4989,
       -6084, -6991, -7636, -7952, -7887, -7402, -6478, -5111, -3318, -1136, 1382, 4166, 7133,
       10184, 13217, 16124, 18794, 21122, 23010, 24371, 25133, 25239, 24656, 23369, 21388,
       18745, 15494, 11711, 7489, 2939, -1815, -6643, -11409, -15975, -20208, -23985, -27193,
       -29736, -31540, -32548, -32730, -32080, -30617, -28384, -25446, -21890, -17821, -13358,
       -8630, -3774, 1073, 5776, 10206, 14246, 17791, 20756, 23075, 24704, 25623, 25832, 25356,
       24241, 22550, 20366, 17780, 14898, 11828, 8680, 5563, 2580, -177, -2630, -4713, -6380,
       -7603, -8372, -8699, -8610, -8151, -7380, -6369, -5194, -3941, -2694, -1535, -542, 219,
       693, 839, 632, 66, -847, -2082, -3591, -5313, -7176, -9097, -10985, -12748, -14292,
       -15530, -16381, -16776, -16661, -15999, -14770, -12978, -10644, -7812, -4544, -923,
       2955, 6983, 11041, 15006, 18753, 22160, 25114, 27512, 29264, 30302, 30577, 30061, 28753,
       26673, 23869, 20409, 16381, 11892, 7065, 2032, -3067, -8091, -12901, -17363, -21356,
       -24771, -27520, -29533, -30765, -31194, -30822, -29677, -27806, -25282, -22193, -18644,
       -14751, -10637, -6429, -2254, 1767, 5524, 8916, 11859, 14288, 16156, 17439, 18133,
       18254, 17839, 16942, 15631, 13988, 12101, 10066, 7978, 5929, 4007, 2289, 838, -294,
       -1076, -1491, -1543, -1252, -654, 197, 1240, 2399, 3592, 4737, 5751, 6553, 7072, 7249,
       7036, 6402, 5334, 3837, 1936, -325, -2888, -5676, -8602, -11565, -14461, -17182, -19622,
       -21678, -23258, -24283, -24689, -24430, -23481, -21841, -19528, -16586, -13079, -9092,
       -4725, -94, 4671, 9439, 14074, 18439, 22408, 25861, 28695, 30824, 32182, 32727, 32441,
       31329, 29423, 26778, 23470, 19596, 15269, 10613, 5763, 856, -3968, -8580, -12852,
       -16673, -19948, -22599, -24572, -25833, -26371, -26200, -25355, -23890, -21880, -19413,
       -16588, -13514, -10302, -7064, -3906, -929, 1778, 4143, 6108, 7633, 8697, 9301, 9461,
       9213, 8608, 7711, 6597, 5346, 4044, 2776, 1623, 657, -55, -467, -542, -264, 368, 1338,
       2610, 4132, 5840, 7656, 9495, 11267, 12879, 14241, 15269, 15888, 16035, 15664, 14746,
       13271, 11252, 8719, 5724, 2338, -1350, -5241, -9221, -13171, -16966, -20484, -23608,
       -26230, -28253>>) @@
    (<<852, 1477>> :> <<
       0, 5406, 10632, 15504, 19865, 23573, 26516, 28610, 29804, 30080, 29457, 27985, 25747,
       22852, 19430, 15628, 11604, 7517, 3522, -233, -3622, -6536, -8892, -10637, -11748,
       -12232, -12125, -11489, -10412, -8998, -7365, -5639, -3943, -2400, -1117, -187, 320,
       360, -85, -1006, -2365, -4096, -6111, -8303, -10550, -12721, -14683, -16307, -17475,
       -18084, -18054, -17329, -15884, -13724, -10887, -7440, -3480, 870, 5468, 10156, 14767,
       19132, 23086, 26478, 29174, 31062, 32061, 32121, 31227, 29399, 26691, 23191, 19016,
       14306, 9222, 3938, -1368, -6519, -11344, -15691, -19424, -22436, -24649, -26018, -26531,
       -26209, -25106, -23304, -20912, -18055, -14874, -11517, -8133, -4866, -1844, 817, 3029,
       4726, 5872, 6459, 6510, 6075, 5226, 4058, 2680, 1212, -222, -1505, -2523, -3182, -3402,
       -3132, -2343, -1039, 751, 2968, 5529, 8327, 11238, 14126, 16851, 19269, 21248, 22667,
       23423, 23439, 22667, 21088, 18716, 15601, 11820, 7484, 2724, -2305, -7437, -12496,
       -17306, -21698, -25517, -28627, -30916, -32304, -32741, -32216, -30749, -28397, -25250,
       -21423, -17058, -12313, -7357, -2365, 2492, 7052, 11170, 14720, 17604, 19754, 21131,
       21733, 21585, 20746, 19301, 17354, 15030, 12462, 9790, 7150, 4671, 2468, 635, -754,
       -1656, -2053, -1957, -1406, -466, 776, 2219, 3744, 5228, 6550, 7592, 8250, 8438, 8090,
       7169, 5665, 3598, 1016, -2002, -5356, -8921, -12559, -16120, -19452, -22404, -24837,
       -26626, -27669, -27891, -27245, -25720, -23337, -20151, -16249, -11750, -6792, -1537,
       3840, 9163, 14250, 18931, 23050, 26471, 29083, 30809, 31602, 31452, 30381, 28448, 25742,
       22378, 18494, 14244, 9791, 5301, 936, -3152, -6831, -9988, -12537, -14421, -15615,
       -16125, -15986, -15262, -14040, -12428, -10546, -8522, -6487, -4567, -2874, -1508, -544,
       -36, -8, -456, -1350, -2631, -4219, -6012, -7893, -9738, -11419, -12810, -13797, -14280,
       -14179, -13442, -12041, -9982, -7301, -4063, -361, 3685, 7939, 12247, 16447, 20376,
       23878, 26806, 29032, 30454, 30996, 30615, 29302, 27083, 24018, 20201, 15751, 10815,
       5555, 148, -5224, -10385, -15165, -19410, -22987, -25790, -27746, -28811, -28980,
       -28277, -26763, -24525, -21678, -18354, -14702, -10877, -7033, -3321, 122, 3177, 5748,
       7764, 9184, 9997, 10221, 9903, 9116, 7952, 6520, 4941, 3340, 1838, 550, -421, -997,
       -1118, -750, 110, 1439, 3186, 5273, 7601, 10053, 12501, 14809, 16842, 18472, 19582,
       20076, 19879, 18946, 17261, 14841, 11733, 8017, 3800, -785, -5589, -10448, -15190,
       -19644, -23647, -27047, -29717, -31550, -32472, -32442>>) @@
    (<<852, 1633>> :> <<
       0, 5761, 11290, 16364, 20785, 24386, 27039, 28661, 29221, 28737, 27273, 24941, 21889,
       18295, 14356, 10281, 6273, 2526, -792, -3543, -5628, -6989, -7615, -7540, -6838, -5622,
       -4036, -2241, -412, 1275, 2657, 3588, 3951, 3668, 2699, 1049, -1230, -4048, -7274,
       -10747, -14282, -17683, -20751, -23294, -25143, -26157, -26230, -25303, -23362, -20446,
       -16639, -12071, -6912, -1362, 4357, 10014, 15378, 20228, 24370, 27640, 29914, 31116,
       31219, 30248, 28275, 25417, 21831, 17703, 13237, 8649, 4151, -56, -3798, -6929, -9344,
       -10982, -11825, -11904, -11291, -10098, -8466, -6560, -4554, -2627, -946, 336, 1101,
       1262, 773, -367, -2119, -4396, -7078, -10010, -13017, -15910, -18498, -20596, -22041,
       -22696, -22464, -21287, -19156, -16110, -12237, -7668, -2570, 2855, 8391, 13806, 18873,
       23378, 27128, 29967, 31776, 32487, 32078, 30582, 28078, 24691, 20586, 15954, 11010,
       5974, 1066, -3507, -7565, -10958, -13576, -15353, -16272, -16361, -15692, -14376,
       -12557, -10401, -8088, -5800, -3711, -1977, -726, -51, -7, -604, -1808, -3543, -5696,
       -8122, -10651, -13103, -15292, -17041, -18190, -18608, -18199, -16908, -14728, -11698,
       -7906, -3479, 1415, 6580, 11802, 16855, 21517, 25578, 28855, 31195, 32488, 32673, 31735,
       29715, 26698, 22819, 18246, 13180, 7841, 2455, -2751, -7570, -11814, -15332, -18010,
       -19783, -20632, -20586, -19719, -18145, -16011, -13487, -10759, -8015, -5436, -3185,
       -1399, -178, 413, 358, -318, -1549, -3228, -5217, -7355, -9465, -11367, -12889, -13873,
       -14191, -13747, -12488, -10405, -7536, -3964, 184, 4748, 9536, 14338, 18935, 23112,
       26667, 29422, 31233, 31998, 31661, 30217, 27712, 24240, 19939, 14987, 9588, 3966, -1645,
       -7020, -11945, -16233, -19729, -22323, -23947, -24586, -24271, -23080, -21131, -18576,
       -15593, -12373, -9111, -5997, -3201, -869, 890, 2005, 2450, 2242, 1441, 147, -1507,
       -3367, -5260, -7008, -8441, -9404, -9767, -9435, -8351, -6505, -3929, -703, 3052, 7182,
       11502, 15808, 19889, 23538, 26560, 28785, 30077, 30340, 29526, 27636, 24722, 20885,
       16268, 11051, 5444, -325, -6024, -11424, -16309, -20494, -23827, -26196, -27539, -27844,
       -27146, -25529, -23117, -20068, -16567, -12814, -9010, -5355, -2025, 823, 3075, 4652,
       5519, 5687, 5211, 4185, 2738, 1021, -793, -2532, -4022, -5109, -5661, -5578, -4801,
       -3314, -1144, 1635, 4911, 8535, 12330, 16101, 19645, 22762, 25264, 26990, 27810, 27635,
       26424, 24182, 20967, 16882, 12075, 6730, 1056, -4717, -10357, -15635, -20339, -24284,
       -27322, -29345, -30297, -30168, -29003, -26889, -23960, -20380, -16342>>) @@
    (<<941, 1209>> :> <<
       0, 4998, 9873, 14507, 18787, 22608, 25878, 28520, 30471, 31689, 32146, 31839, 30778,
       28998, 26547, 23493, 19916, 15909, 11577, 7029, 2380, -2254, -6761, -11031, -14964,
       -18469, -21466, -23893, -25700, -26856, -27347, -27176, -26362, -24943, -22968, -20502,
       -17619, -14405, -10950, -7348, -3694, -82, 3395, 6658, 9629, 12243, 14447, 16202, 17481,
       18271, 18575, 18406, 17793, 16775, 15400, 13726, 11814, 9732, 7549, 5332, 3148, 1059,
       -880, -2623, -4129, -5371, -6330, -6997, -7375, -7477, -7325, -6948, -6384, -5673,
       -4863, -3999, -3130, -2300, -1552, -921, -438, -127, -1, -65, -317, -744, -1324, -2030,
       -2825, -3669, -4518, -5324, -6041, -6623, -7028, -7218, -7162, -6836, -6228, -5331,
       -4153, -2710, -1028, 854, 2892, 5032, 7213, 9371, 11439, 13348, 15031, 16426, 17475,
       18129, 18347, 18101, 17373, 16161, 14474, 12338, 9790, 6882, 3675, 245, -3326, -6951,
       -10536, -13986, -17207, -20108, -22605, -24622, -26092, -26965, -27203, -26783, -25700,
       -23966, -21612, -18684, -15242, -11365, -7141, -2670, 1939, 6577, 11126, 15472, 19504,
       23120, 26223, 28732, 30578, 31710, 32094, 31713, 30573, 28696, 26123, 22916, 19149,
       14914, 10312, 5457, 466, -4537, -9431, -14096, -18418, -22292, -25623, -28334, -30359,
       -31654, -32189, -31957, -30970, -29256, -26865, -23860, -20323, -16344, -12028, -7482,
       -2823, 1833, 6375, 10690, 14677, 18244, 21310, 23809, 25690, 26920, 27483, 27378, 26625,
       25258, 23326, 20892, 18031, 14825, 11366, 7748, 4067, 418, -3107, -6425, -9457, -12137,
       -14410, -16234, -17580, -18434, -18795, -18677, -18107, -17121, -15768, -14103, -12190,
       -10096, -7889, -5639, -3413, -1273, 722, 2526, 4096, 5401, 6422, 7148, 7580, 7730, 7616,
       7269, 6724, 6023, 5210, 4333, 3440, 2577, 1786, 1106, 569, 198, 11, 14, 206, 576, 1105,
       1766, 2525, 3342, 4174, 4975, 5697, 6296, 6727, 6953, 6941, 6668, 6117, 5282, 4167,
       2787, 1167, -657, -2643, -4738, -6883, -9015, -11067, -12971, -14662, -16075, -17153,
       -17846, -18112, -17922, -17256, -16110, -14491, -12424, -9942, -7096, -3947, -566, 2964,
       6559, 10125, 13568, 16794, 19713, 22238, 24295, 25815, 26747, 27049, 26699, 25689,
       24030, 21749, 18889, 15512, 11692, 7515, 3082, -1502, -6126, -10674, -15032, -19089,
       -22741, -25892, -28458, -30369, -31572, -32031, -31728, -30665, -28862, -26360, -23216,
       -19505, -15315, -10748, -5914, -933, 4074, 8985, 13680, 18043, 21968, 25360, 28139,
       30238, 31608, 32221, 32066, 31151, 29506, 27175, 24222, 20726, 16777, 12478, 7937, 3269,
       -1408, -5982, -10342>>) @@
    (<<941, 1336>> :> <<
       0, 5289, 10428, 15268, 19674, 23521, 26703, 29136, 30756, 31526, 31436, 30501, 28760,
       26277, 23139, 19449, 15325, 10898, 6304, 1680, -2837, -7121, -11051, -14526, -17459,
       -19783, -21455, -22453, -22776, -22448, -21511, -20027, -18072, -15736, -13117, -10318,
       -7445, -4598, -1874, 641, 2874, 4767, 6277, 7379, 8067, 8352, 8262, 7839, 7138, 6224,
       5169, 4050, 2940, 1914, 1037, 365, -54, -193, -33, 424, 1163, 2154, 3348, 4689, 6107,
       7527, 8870, 10054, 11002, 11644, 11916, 11769, 11170, 10099, 8559, 6567, 4162, 1401,
       -1642, -4883, -8222, -11550, -14756, -17727, -20353, -22531, -24169, -25190, -25535,
       -25164, -24061, -22232, -19706, -16536, -12798, -8588, -4016, 789, 5692, 10552, 15223,
       19567, 23450, 26752, 29370, 31219, 32238, 32389, 31662, 30071, 27658, 24491, 20657,
       16268, 11448, 6338, 1084, -4163, -9253, -14043, -18398, -22198, -25344, -27754, -29371,
       -30163, -30125, -29274, -27654, -25330, -22390, -18935, -15081, -10956, -6687, -2408,
       1755, 5683, 9267, 12416, 15053, 17122, 18589, 19440, 19683, 19346, 18477, 17137, 15404,
       13363, 11109, 8737, 6343, 4017, 1842, -108, -1776, -3118, -4107, -4732, -5000, -4935,
       -4573, -3967, -3176, -2269, -1319, -400, 418, 1070, 1500, 1662, 1524, 1069, 299, -771,
       -2111, -3672, -5393, -7204, -9025, -10770, -12354, -13689, -14698, -15310, -15464,
       -15118, -14244, -12834, -10900, -8472, -5602, -2359, 1169, 4885, 8676, 12426, 16012,
       19313, 22214, 24609, 26404, 27522, 27905, 27518, 26348, 24408, 21735, 18389, 14453,
       10032, 5243, 221, -4891, -9948, -14801, -19308, -23335, -26762, -29485, -31423, -32517,
       -32733, -32064, -30530, -28175, -25070, -21306, -16997, -12268, -7260, -2118, 3009,
       7975, 12640, 16876, 20568, 23622, 25963, 27541, 28329, 28326, 27556, 26063, 23915,
       21198, 18014, 14474, 10698, 6811, 2935, -812, -4323, -7501, -10264, -12548, -14310,
       -15524, -16188, -16316, -15942, -15119, -13909, -12390, -10644, -8759, -6824, -4924,
       -3138, -1536, -175, 899, 1661, 2098, 2214, 2031, 1583, 920, 100, -809, -1737, -2610,
       -3356, -3910, -4212, -4217, -3891, -3215, -2187, -822, 847, 2774, 4897, 7141, 9421,
       11647, 13725, 15561, 17066, 18158, 18767, 18838, 18330, 17225, 15522, 13243, 10431,
       7150, 3479, -481, -4621, -8819, -12947, -16876, -20478, -23634, -26233, -28182, -29403,
       -29840, -29463, -28262, -26257, -23490, -20028, -15962, -11399, -6468, -1304, 3943,
       9125, 14093, 18701, 22817, 26322, 29115, 31117, 32272, 32551, 31950, 30492, 28227,
       25227, 21586, 17416, 12845, 8009, 3053, -1879, -6646, -11114>>) @@
    (<<941, 1477>> :> <<
       0, 5612, 11034, 16082, 20589, 24407, 27414, 29521, 30671, 30844, 30057, 28362, 25842,
       22610, 18803, 14576, 10093, 5525, 1038, -3207, -7072, -10435, -13200, -15300, -16701,
       -17397, -17415, -16810, -15660, -14066, -12142, -10013, -7807, -5647, -3649, -1914,
       -523, 464, 1016, 1125, 811, 121, -877, -2098, -3439, -4789, -6033, -7061, -7769, -8070,
       -7894, -7194, -5951, -4173, -1897, 812, 3867, 7155, 10546, 13899, 17067, 19903, 22268,
       24034, 25096, 25371, 24806, 23381, 21107, 18032, 14235, 9828, 4947, -249, -5587, -10882,
       -15950, -20611, -24698, -28064, -30586, -32171, -32762, -32336, -30909, -28531, -25290,
       -21302, -16710, -11679, -6387, -1018, 4240, 9215, 13740, 17675, 20903, 23337, 24923,
       25642, 25508, 24568, 22899, 20604, 17805, 14641, 11260, 7809, 4433, 1266, -1576, -3997,
       -5927, -7321, -8166, -8473, -8285, -7664, -6695, -5480, -4127, -2751, -1465, -373, 432,
       879, 915, 513, -326, -1578, -3188, -5082, -7163, -9319, -11430, -13368, -15008, -16234,
       -16943, -17050, -16496, -15248, -13304, -10693, -7474, -3737, 404, 4811, 9331, 13799,
       18044, 21902, 25216, 27846, 29674, 30611, 30598, 29613, 27668, 24812, 21129, 16735,
       11771, 6403, 812, -4813, -10282, -15410, -20024, -23972, -27128, -29394, -30709, -31045,
       -30411, -28852, -26447, -23304, -19555, -15353, -10862, -6253, -1694, 2652, 6640, 10144,
       13061, 15318, 16873, 17715, 17863, 17366, 16298, 14757, 12855, 10715, 8466, 6233, 4136,
       2281, 753, -381, -1083, -1339, -1161, -591, 309, 1458, 2757, 4096, 5362, 6442, 7233,
       7640, 7591, 7033, 5941, 4315, 2186, -388, -3326, -6519, -9844, -13162, -16328, -19194,
       -21620, -23478, -24657, -25069, -24656, -23390, -21277, -18356, -14702, -10417, -5635,
       -508, 4791, 10082, 15180, 19904, 24084, 27569, 30231, 31972, 32727, 32467, 31200, 28970,
       25858, 21974, 17459, 12472, 7190, 1798, -3517, -8579, -13218, -17287, -20666, -23259,
       -25007, -25882, -25892, -25079, -23513, -21293, -18538, -15386, -11984, -8480, -5022,
       -1747, 1223, 3787, 5868, 7415, 8407, 8849, 8777, 8250, 7347, 6167, 4818, 3414, 2069,
       891, -25, -601, -780, -527, 163, 1272, 2754, 4539, 6535, 8635, 10721, 12665, 14345,
       15641, 16446, 16674, 16259, 15162, 13374, 10918, 7845, 4239, 208, -4114, -8579, -13024,
       -17280, -21182, -24572, -27306, -29262, -30345, -30491, -29670, -27888, -25186, -21642,
       -17365, -12493, -7186, -1622, 4009, 9518, 14718, 19433, 23508, 26809, 29234, 30713,
       31212, 30733, 29316, 27031, 23982, 20299, 16129, 11637, 6993, 2369, -2072, -6179, -9820,
       -12888, -15302>>) @@
    (<<941, 1633>> :> <<
       0, 5967, 11692, 16942, 21510, 25220, 27936, 29572, 30088, 29501, 27873, 25318, 21983,
       18053, 13730, 9228, 4762, 533, -3276, -6517, -9078, -10888, -11923, -12202, -11790,
       -10788, -9326, -7561, -5660, -3792, -2119, -786, 88, 421, 167, -677, -2074, -3944,
       -6173, -8615, -11105, -13465, -15517, -17089, -18032, -18225, -17580, -16057, -13657,
       -10432, -6479, -1937, 3019, 8188, 13347, 18267, 22726, 26513, 29448, 31383, 32214,
       31888, 30401, 27804, 24197, 19727, 14577, 8963, 3117, -2717, -8303, -13419, -17867,
       -21485, -24154, -25802, -26407, -25996, -24645, -22471, -19628, -16295, -12667, -8945,
       -5325, -1985, 917, 3265, 4975, 6007, 6367, 6101, 5296, 4070, 2567, 947, -623, -1985,
       -2989, -3513, -3466, -2793, -1482, 435, 2886, 5760, 8911, 12170, 15348, 18254, 20700,
       22512, 23545, 23684, 22859, 21044, 18264, 14590, 10144, 5084, -392, -6066, -11703,
       -17066, -21923, -26067, -29317, -31533, -32619, -32533, -31282, -28927, -25579, -21390,
       -16550, -11274, -5791, -337, 4862, 9599, 13694, 17004, 19429, 20918, 21466, 21116,
       19957, 18113, 15738, 13008, 10109, 7226, 4533, 2185, 304, -1017, -1734, -1839, -1369,
       -399, 959, 2569, 4273, 5904, 7299, 8302, 8781, 8634, 7792, 6232, 3971, 1074, -2354,
       -6172, -10207, -14264, -18139, -21625, -24526, -26667, -27905, -28135, -27297, -25382,
       -22430, -18533, -13828, -8492, -2735, 3211, 9105, 14706, 19783, 24131, 27577, 29989,
       31284, 31429, 30445, 28401, 25416, 21646, 17281, 12532, 7621, 2769, -1813, -5939, -9452,
       -12232, -14206, -15343, -15662, -15225, -14130, -12513, -10530, -8351, -6153, -4102,
       -2352, -1029, -225, 3, -355, -1273, -2682, -4475, -6517, -8649, -10701, -12498, -13876,
       -14687, -14810, -14161, -12696, -10415, -7366, -3642, 623, 5261, 10075, 14851, 19366,
       23406, 26767, 29274, 30788, 31211, 30495, 28644, 25713, 21807, 17076, 11709, 5924, -41,
       -5946, -11549, -16628, -20985, -24459, -26932, -28334, -28647, -27902, -26179, -23603,
       -20332, -16552, -12468, -8289, -4219, -445, 2868, 5593, 7639, 8960, 9553, 9462, 8766,
       7584, 6056, 4344, 2614, 1031, -253, -1110, -1441, -1185, -321, 1130, 3105, 5502, 8185,
       10992, 13746, 16261, 18357, 19867, 20648, 20591, 19628, 17734, 14933, 11298, 6945, 2034,
       -3243, -8673, -14023, -19063, -23567, -27332, -30184, -31989, -32658, -32154, -30492,
       -27738, -24008, -19462, -14295, -8727, -2993, 2667, 8024, 12866, 17009, 20311, 22670,
       24033, 24399, 23812, 22363, 20181, 17427, 14283, 10941, 7595, 4428, 1604, -744, -2517,
       -3658, -4152, -4027, -3352, -2230, -796, 797>>)

(***************************************************************************)
(* Bounds of the model                                                     *)
(***************************************************************************)
MaxSeqLen == 2

MaxFailAt == 1

MaxToneSeqLen == 2

MaxToneDur == 6

MaxRecLen == 3

MaxCandLen == 2

InputSymbols == {"1", "X"}

ToneSymbols == {"1", "2", "S"}

SeqsUpTo(S, n) == UNION {[1..k -> S] : k \in 0..n}

(***************************************************************************)
(* json.loads on the texts the model passes in.  Every other string of the *)
(* model ("nojson", "S", "X") is not a JSON document.                      *)
(***************************************************************************)
json_loads(s) ==
    CASE s = "[[\"1\", 1]]" ->
            Returned(PyList(<<PyList(<<PyStr("1"), PyInt(1)>>)>>))
      [] s = "[]" -> Returned(PyList(<<>>))
      [] s = "[[\"1\"]]" -> Returned(PyList(<<PyList(<<PyStr("1")>>)>>))
      [] s = "[[1, 1]]" -> Returned(PyList(<<PyList(<<PyInt(1), PyInt(1)>>)>>))
      [] s = "1" -> Returned(PyInt(1))
      [] s = "5" -> Returned(PyInt(5))
      [] OTHER -> Raised("JSONDecodeError")

parse_json_string(input_string) ==
    IF input_string.type = "str" THEN json_loads(input_string.s)
    ELSE Raised("TypeError")

(***************************************************************************)
(* dtmf_sequence_is_valid: "True", "False", or the exception it raises.    *)
(***************************************************************************)
RECURSIVE check_items(_)
check_items(items) ==
    IF items = <<>> THEN "True"
    ELSE LET item == Head(items) IN
         IF item.type = "set" THEN "TypeError"
         ELSE IF Len(item.items) < 2 THEN "IndexError"
         ELSE IF item.items[1].type # "str" \/ item.items[2].type # "int"
              THEN "False"
         ELSE check_items(Tail(items))

dtmf_sequence_is_valid(input_list) ==
    IF input_list.type # "list" THEN "False"
    ELSE IF \E i \in 1..Len(input_list.items) :
               input_list.items[i].type \notin VALID_SEQUENCE_TYPES
         THEN "False"
    ELSE check_items(input_list.items)

(***************************************************************************)
(* The dtmf_sequence setter: the exception it raises, if any, whether it   *)
(* assigns _dtmf_sequence, and the value of _dtmf_sequence after it.       *)
(***************************************************************************)
dtmf_sequence_setter(seq, input_sequence) ==
    LET p == IF input_sequence.type = "str"
             THEN parse_json_string(input_sequence)
             ELSE Returned(input_sequence)
    IN  IF p.exc # NoExc THEN [exc |-> p.exc, assigned |-> FALSE, seq |-> seq]
        ELSE IF p.value.type = "list"
        THEN LET v == dtmf_sequence_is_valid(p.value) IN
             IF v = "True" THEN [exc |-> NoExc, assigned |-> TRUE, seq |-> p.value]
             ELSE IF v = "False" THEN [exc |-> NoExc, assigned |-> FALSE, seq |-> seq]
             ELSE [exc |-> v, assigned |-> FALSE, seq |-> seq]
        ELSE [exc |-> NoExc, assigned |-> FALSE, seq |-> seq]

(***************************************************************************)
(* generate_tone                                                           *)
(***************************************************************************)
\* round() in place of int()
mutant_number_of_samples_rounds(_duration_in_ms) ==
    (SAMPLE_RATE * _duration_in_ms + 500) \div 1000

\* int(SAMPLE_RATE * _duration_in_ms / 1000): int() truncates toward zero
number_of_samples(_duration_in_ms) ==
    IF _duration_in_ms >= 0
    THEN (SAMPLE_RATE * _duration_in_ms) \div 1000
    ELSE -((SAMPLE_RATE * (-_duration_in_ms)) \div 1000)

tone_sample(f1, f2, i) ==
    IF f1 = 0 /\ f2 = 0 THEN 0 ELSE SampleTable[<<f1, f2>>][i + 1]

generate_tone(f1, f2, _duration_in_ms) ==
    IF ~(f1 \in ROW_FREQ \/ f1 = 0) \/ ~(f2 \in COL_FREQ \/ f2 = 0)
    THEN Raised("AssertionError")
    ELSE Returned([i \in 1..number_of_samples(_duration_in_ms) |->
                      tone_sample(f1, f2, i - 1)])

(***************************************************************************)
(* generate_raw_data: the exception it raises, if any, and the value of    *)
(* _raw_data after it.                                                     *)
(***************************************************************************)
\* a loop that puts each tone in front of the accumulated data
RECURSIVE mutant_loop_prepends(_, _)
mutant_loop_prepends(items, _data) ==
    IF items = <<>> THEN Returned(_data)
    ELSE LET tone_tuple == Head(items)
             key == tone_tuple.items[1].s
             tone_duration == tone_tuple.items[2].n
         IN  IF key \notin DOMAIN FREQUENCY_MAP THEN Raised("KeyError")
             ELSE LET t == generate_tone(FREQUENCY_MAP[key][1],
                                         FREQUENCY_MAP[key][2], tone_duration)
                  IN  IF t.exc # NoExc THEN Raised(t.exc)
                      ELSE mutant_loop_prepends(Tail(items), t.value \o _data)

RECURSIVE raw_data_loop(_, _)
raw_data_loop(items, _data) ==
    IF items = <<>> THEN Returned(_data)
    ELSE LET tone_tuple == Head(items)
             key == tone_tuple.items[1].s
             tone_duration == tone_tuple.items[2].n
         IN  IF key \notin DOMAIN FREQUENCY_MAP THEN Raised("KeyError")
             ELSE LET t == generate_tone(FREQUENCY_MAP[key][1],
                                         FREQUENCY_MAP[key][2], tone_duration)
                  IN  IF t.exc # NoExc THEN Raised(t.exc)
                      ELSE raw_data_loop(Tail(items), _data \o t.value)

\* the tones of the entries before the first unknown symbol
RECURSIVE tones_before_unknown(_, _)
tones_before_unknown(items, _data) ==
    IF items = <<>> \/ Head(items).items[1].s \notin DOMAIN FREQUENCY_MAP THEN _data
    ELSE tones_before_unknown(Tail(items),
            _data \o generate_tone(FREQUENCY_MAP[Head(items).items[1].s][1],
                                   FREQUENCY_MAP[Head(items).items[1].s][2],
                                   Head(items).items[2].n).value)

\* a generate_raw_data that appends to self._raw_data as it goes
mutant_generate_stores_partial(seq, raw) ==
    IF seq = None THEN [exc |-> "AttributeError", raw |-> raw]
    ELSE LET r == raw_data_loop(seq.items, <<>>)
         IN  IF r.exc # NoExc
             THEN [exc |-> r.exc, raw |-> PyList(tones_before_unknown(seq.items, <<>>))]
             ELSE [exc |-> NoExc, raw |-> PyList(r.value)]

\* a generate_raw_data without the check for a missing sequence
mutant_generate_without_check(seq, raw) ==
    LET r == raw_data_loop(IF seq = None THEN <<>> ELSE seq.items, <<>>)
    IN  IF r.exc # NoExc THEN [exc |-> r.exc, raw |-> raw]
        ELSE [exc |-> NoExc, raw |-> PyList(r.value)]

generate_raw_data(seq, raw) ==
    IF seq = None THEN [exc |-> "AttributeError", raw |-> raw]
    ELSE LET r == raw_data_loop(seq.items, <<>>)
         IN  IF r.exc # NoExc THEN [exc |-> r.exc, raw |-> raw]
             ELSE [exc |-> NoExc, raw |-> PyList(r.value)]

(***************************************************************************)
(* The wave container.  A file is absent, or holds the header fields       *)
(* written so far (None before the header is written) and the data: the    *)
(* byte strings written, one per writeframes call.  closed is TRUE once    *)
(* close() has returned.                                                   *)
(***************************************************************************)
NoFile == [exists |-> FALSE]

\* struct.pack('i', v): a 4-byte two's-complement int, least significant first
struct_pack_i(v) ==
    LET low31 == IF v >= 0 THEN v ELSE (v + 2147483647) + 1
    IN  << low31 % 256,
           (low31 \div 256) % 256,
           (low31 \div 65536) % 256,
           ((low31 \div 16777216) % 128) + (IF v < 0 THEN 128 ELSE 0) >>

\* the byte strings of the first k calls f.writeframes(struct.pack('i', i))
packed_frames(samples, k) == [j \in 1..k |-> struct_pack_i(samples[j])]

\* the number of bytes in the byte strings chunks[lo], ..., chunks[hi]
RECURSIVE byte_count(_, _, _)
byte_count(chunks, lo, hi) ==
    IF lo > hi THEN 0
    ELSE IF lo = hi THEN Len(chunks[lo])
    ELSE LET mid == (lo + hi) \div 2
         IN  byte_count(chunks, lo, mid) + byte_count(chunks, mid + 1, hi)

\* the header wave writes for a data chunk of datalength bytes
wave_header(datalength) ==
    [nchannels  |-> NUMBER_OF_CHANNELS,
     sampwidth  |-> SAMPLE_WIDTH,
     framerate  |-> SAMPLE_RATE,
     comptype   |-> COMPRESSION_TYPE,
     datalength |-> datalength]

\* the frame count a reader derives from the header
getnframes(f) ==
    f.header.datalength \div (f.header.nchannels * f.header.sampwidth)

\* the file after wave.open(file_path, 'w') and k calls of writeframes:
\* the first call writes the header for the announced frame count, and every
\* call patches the header to the number of bytes written so far
written_file(samples, k) ==
    LET data == packed_frames(samples, k)
    IN  [exists |-> TRUE,
         closed |-> FALSE,
         header |-> IF k = 0 THEN None ELSE wave_header(byte_count(data, 1, k)),
         data   |-> data]

\* close(): writes the header if no frame was written, patches it, closes
closed_file(samples) ==
    LET data == packed_frames(samples, Len(samples))
    IN  [exists |-> TRUE,
         closed |-> TRUE,
         header |-> wave_header(byte_count(data, 1, Len(samples))),
         data   |-> data]

\* what the destination does: the write succeeds, wave.open raises, or the
\* write of sample k + 1 raises
IOOutcomes ==
    {[kind |-> "ok", k |-> 0], [kind |-> "open", k |-> 0]}
    \cup {[kind |-> "write", k |-> k] : k \in 0..MaxFailAt}

\* lines 133-143 of save_wave_file under the outcome io of the destination;
\* reached: the run gets as far as the point where io strikes
write_wave(samples, f, io) ==
    CASE io.kind = "open" ->
            [exc |-> "OSError", opened |-> FALSE, reached |-> TRUE, file |-> f]
      [] io.kind = "write" ->
            IF io.k < Len(samples)
            THEN [exc |-> "OSError", opened |-> TRUE, reached |-> TRUE,
                  file |-> written_file(samples, io.k)]
            ELSE [exc |-> NoExc, opened |-> TRUE, reached |-> FALSE, file |-> f]
      [] OTHER ->
            [exc |-> NoExc, opened |-> TRUE, reached |-> TRUE,
             file |-> closed_file(samples)]

\* save_wave_file: the exception, whether the destination was opened, and
\* _raw_data and the file after it
save_wave_file(seq, raw, f, io) ==
    LET g == IF raw = None \/ Len(raw.items) < 1
             THEN generate_raw_data(seq, raw)
             ELSE [exc |-> NoExc, raw |-> raw]
    IN  IF g.exc # NoExc
        THEN [exc |-> g.exc, opened |-> FALSE, reached |-> io.kind = "ok",
              raw |-> g.raw, file |-> f]
        ELSE LET w == write_wave(g.raw.items, f, io)
             IN  [exc |-> w.exc, opened |-> w.opened, reached |-> w.reached,
                  raw |-> g.raw, file |-> w.file]

\* create_dtmf_wave_file (dump_to_csv = False)
create_dtmf_wave_file(seq, raw, f, input_sequence, io) ==
    LET s == dtmf_sequence_setter(seq, input_sequence)
    IN  IF s.exc # NoExc
        THEN [exc |-> s.exc, opened |-> FALSE, reached |-> io.kind = "ok",
              assigned |-> s.assigned, seq |-> s.seq, raw |-> raw, file |-> f]
        ELSE LET g == generate_raw_data(s.seq, raw)
             IN  IF g.exc # NoExc
                 THEN [exc |-> g.exc, opened |-> FALSE, reached |-> io.kind = "ok",
                       assigned |-> s.assigned, seq |-> s.seq, raw |-> g.raw,
                       file |-> f]
                 ELSE LET w == save_wave_file(s.seq, g.raw, f, io)
                      IN  [exc |-> w.exc, opened |-> w.opened, reached |-> w.reached,
                           assigned |-> s.assigned, seq |-> s.seq, raw |-> w.raw,
                           file |-> w.file]

(***************************************************************************)
(* DTMF.__init__: the exception it raises, if any, whether it assigns      *)
(* _dtmf_sequence, and _dtmf_sequence after it.                            *)
(***************************************************************************)
DTMF_init(input_string, input_list) ==
    IF input_string # None
    THEN LET p == parse_json_string(input_string)
         IN  IF p.exc # NoExc THEN [exc |-> p.exc, assigned |-> FALSE, seq |-> None]
             ELSE dtmf_sequence_setter(None, p.value)
    ELSE IF input_list # None
    THEN dtmf_sequence_setter(None, input_list)
    ELSE [exc |-> NoExc, assigned |-> FALSE, seq |-> None]

(***************************************************************************)
(* Inputs                                                                  *)
(***************************************************************************)
Entry(sym, d) == PyList(<<PyStr(sym), PyInt(d)>>)

InputEntries == {Entry(sym, 1) : sym \in InputSymbols}

WellFormedInputs == {PyList(s) : s \in SeqsUpTo(InputEntries, MaxSeqLen)}

MalformedInputs ==
    { PyTuple(<<Entry("1", 1)>>),
      PyList(<<PyInt(5)>>),
      PyList(<<PyList(<<PyStr("1")>>)>>),
      PyList(<<PyList(<<PyStr("1"), PyFloat(1)>>)>>),
      PyStr("[[1, 1]]"), PyStr("nojson") }

TextInputs == {PyStr("[[\"1\", 1]]")} \cup {c \in MalformedInputs : c.type = "str"}

Candidates == WellFormedInputs \cup MalformedInputs \cup TextInputs

NotCalled == [called |-> FALSE]

NoResult == [op |-> "none", exc |-> NoExc, opened |-> FALSE, assigned |-> FALSE]

(***************************************************************************)
(* The instance: actions                                                   *)
(***************************************************************************)
Init ==
    /\ alive = FALSE
    /\ _dtmf_sequence = None
    /\ _raw_data = None
    /\ file = NoFile
    /\ result = NoResult
    /\ tone_in = None /\ tone_out = NotCalled
    /\ valid_in = None /\ valid_out = NotCalled

Construct(input_string, input_list) ==
    /\ ~alive
    /\ \E r \in {DTMF_init(input_string, input_list)} :
           /\ alive' = (r.exc = NoExc)
           /\ _dtmf_sequence' = r.seq
           /\ result' = [op |-> "init", exc |-> r.exc, opened |-> FALSE,
                         assigned |-> r.assigned]
    /\ UNCHANGED <<_raw_data, file, tone_in, tone_out, valid_in, valid_out>>

SetSequence(input_sequence) ==
    /\ alive
    /\ \E r \in {dtmf_sequence_setter(_dtmf_sequence, input_sequence)} :
           /\ _dtmf_sequence' = r.seq
           /\ result' = [op |-> "set", exc |-> r.exc, opened |-> FALSE,
                         assigned |-> r.assigned]
    /\ UNCHANGED <<alive, _raw_data, file, tone_in, tone_out, valid_in, valid_out>>

GenerateRawData ==
    /\ alive
    /\ \E r \in {generate_raw_data(_dtmf_sequence, _raw_data)} :
           /\ _raw_data' = r.raw
           /\ result' = [op |-> "generate", exc |-> r.exc, opened |-> FALSE,
                         assigned |-> FALSE]
    /\ UNCHANGED <<alive, _dtmf_sequence, file, tone_in, tone_out, valid_in, valid_out>>

SaveWaveFile(io) ==
    /\ alive
    /\ \E r \in {save_wave_file(_dtmf_sequence, _raw_data, file, io)} :
           /\ r.reached
           /\ _raw_data' = r.raw
           /\ file' = r.file
           /\ result' = [op |-> "save", exc |-> r.exc, opened |-> r.opened,
                         assigned |-> FALSE]
    /\ UNCHANGED <<alive, _dtmf_sequence, tone_in, tone_out, valid_in, valid_out>>

CreateDtmfWaveFile(input_sequence, io) ==
    /\ alive
    /\ \E r \in {create_dtmf_wave_file(_dtmf_sequence, _raw_data, file,
                                      input_sequence, io)} :
           /\ r.reached
           /\ _dtmf_sequence' = r.seq
           /\ _raw_data' = r.raw
           /\ file' = r.file
           /\ result' = [op |-> "create", exc |-> r.exc, opened |-> r.opened,
                         assigned |-> r.assigned]
    /\ UNCHANGED <<alive, tone_in, tone_out, valid_in, valid_out>>

Next ==
    \/ \E s \in {None} \cup TextInputs, l \in {None} \cup Candidates : Construct(s, l)
    \/ \E c \in Candidates : SetSequence(c)
    \/ GenerateRawData
    \/ \E io \in IOOutcomes : SaveWaveFile(io)
    \/ \E c \in Candidates, io \in IOOutcomes : CreateDtmfWaveFile(c, io)

Spec == Init /\ [][Next]_vars

(***************************************************************************)
(* The synthesis alone: an instance holding an accepted sequence on which  *)
(* generate_raw_data is called, and calls of the static generate_tone.     *)
(***************************************************************************)
ToneEntries == {Entry(sym, d) : sym \in ToneSymbols, d \in 0..MaxToneDur}

ToneSequences == {PyList(s) : s \in SeqsUpTo(ToneEntries, MaxToneSeqLen)}

ToneInputs ==
    {[f1 |-> FREQUENCY_MAP[key][1], f2 |-> FREQUENCY_MAP[key][2], d |-> d] :
        key \in DOMAIN FREQUENCY_MAP, d \in 0..MaxToneDur}

InitTone ==
    /\ alive = TRUE
    /\ _raw_data = None
    /\ file = NoFile
    /\ result = NoResult
    /\ tone_out = NotCalled
    /\ valid_in = None /\ valid_out = NotCalled
    /\ \/ _dtmf_sequence \in ToneSequences /\ tone_in = None
       \/ _dtmf_sequence = None /\ tone_in \in ToneInputs

GenerateTone ==
    /\ tone_in # None
    /\ ~tone_out.called
    /\ tone_out' = [called |-> TRUE,
                    exc |-> generate_tone(tone_in.f1, tone_in.f2, tone_in.d).exc,
                    value |-> generate_tone(tone_in.f1, tone_in.f2, tone_in.d).value]
    /\ UNCHANGED <<alive, _dtmf_sequence, _raw_data, file, result, tone_in,
                   valid_in, valid_out>>

NextTone == GenerateRawData \/ GenerateTone

SpecTone == InitTone /\ [][NextTone]_vars

(***************************************************************************)
(* The validation alone: calls of the static dtmf_sequence_is_valid.       *)
(***************************************************************************)
ValScalars == {PyStr("1"), PyInt(1), PyFloat(1)}

ValRecords ==
    {[type |-> t, items |-> xs] :
        t \in VALID_SEQUENCE_TYPES, xs \in SeqsUpTo(ValScalars, MaxRecLen)}

ValidationInputs ==
    {PyList(xs) : xs \in SeqsUpTo(ValRecords \cup ValScalars, MaxCandLen)}
    \cup {PyTuple(xs) : xs \in SeqsUpTo(ValRecords, 1)}
    \cup ValScalars \cup {None}

InitValid ==
    /\ alive = FALSE
    /\ _dtmf_sequence = None
    /\ _raw_data = None
    /\ file = NoFile
    /\ result = NoResult
    /\ tone_in = None /\ tone_out = NotCalled
    /\ valid_in \in ValidationInputs
    /\ valid_out = NotCalled

Validate ==
    /\ ~valid_out.called
    /\ valid_out' = [called |-> TRUE, ret |-> dtmf_sequence_is_valid(valid_in)]
    /\ UNCHANGED <<alive, _dtmf_sequence, _raw_data, file, result, tone_in,
                   tone_out, valid_in>>

NextValid == Validate

SpecValid == InitValid /\ [][NextValid]_vars

(***************************************************************************)
(* What the claims speak of                                                *)
(***************************************************************************)
\* the symbols of the keypad and the silence marker
KeypadSymbols ==
    {"0", "1", "2", "3", "4", "5", "6", "7", "8", "9",
     "A", "B", "C", "D", "*", "#", "S"}

\* a list or tuple record of exactly two elements, a string and an integer
IsToneEntry(item) ==
    /\ item.type \in {"list", "tuple"}
    /\ Len(item.items) = 2
    /\ item.items[1].type = "str"
    /\ item.items[2].type = "int"

\* a list of such records
IsToneSequence(c) ==
    /\ c.type = "list"
    /\ \A i \in 1..Len(c.items) : IsToneEntry(c.items[i])

HasUnknownSymbol(c) ==
    \E i \in 1..Len(c.items) : c.items[i].items[1].s \notin KeypadSymbols

\* a call of save_wave_file, alone or at the end of create_dtmf_wave_file
IsSaveCall == result.op \in {"save", "create"}

\* the largest n with n <= SAMPLE_RATE * d / 1000
FloorSamples(d) ==
    CHOOSE n \in ((SAMPLE_RATE \div 1000) * d)..((SAMPLE_RATE \div 1000 + 1) * d) :
        1000 * n <= SAMPLE_RATE * d /\ SAMPLE_RATE * d < 1000 * (n + 1)

\* round(SAMPLE_RATE * d / 1000): the nearest integer, a tie going to the even one
RoundSamples(d) ==
    LET fl == FloorSamples(d)
        rem == SAMPLE_RATE * d - 1000 * fl
    IN  IF 2 * rem < 1000 THEN fl
        ELSE IF 2 * rem > 1000 THEN fl + 1
        ELSE IF fl % 2 = 0 THEN fl ELSE fl + 1

RECURSIVE SumFloorSamples(_)
SumFloorSamples(items) ==
    IF items = <<>> THEN 0
    ELSE FloorSamples(Head(items).items[2].n) + SumFloorSamples(Tail(items))

RECURSIVE SumRoundSamples(_)
SumRoundSamples(items) ==
    IF items = <<>> THEN 0
    ELSE RoundSamples(Head(items).items[2].n) + SumRoundSamples(Tail(items))

\* the tone of one entry of a sequence
ToneOf(item) ==
    generate_tone(FREQUENCY_MAP[item.items[1].s][1],
                  FREQUENCY_MAP[item.items[1].s][2], item.items[2].n).value

\* the number of samples of the tones of the entries before entry j
RECURSIVE Offset(_, _)
Offset(items, j) ==
    IF j <= 1 THEN 0 ELSE Offset(items, j - 1) + Len(ToneOf(items[j - 1]))

\* a closed file whose header declares the bytes it holds
CompleteFile(f) ==
    /\ f.exists
    /\ f.closed
    /\ f.header # None
    /\ f.header.datalength = byte_count(f.data, 1, Len(f.data))

(***************************************************************************)
(* C1: every container save_wave_file writes without error declares 1      *)
(* channel, 44100 Hz and a sample width of 2 bytes, holds each sample in    *)
(* exactly the declared 2 bytes, and reads back a frame count equal to the  *)
(* number of samples of the buffer.                                         *)
(***************************************************************************)
C1_ContainerMatchesBuffer ==
    (IsSaveCall /\ result.exc = NoExc) =>
        /\ CompleteFile(file)
        /\ file.header.nchannels = 1
        /\ file.header.framerate = 44100
        /\ file.header.sampwidth = 2
        /\ Len(file.data) = Len(_raw_data.items)
        /\ \A j \in 1..Len(file.data) : Len(file.data[j]) = file.header.sampwidth
        /\ getnframes(file) = Len(_raw_data.items)

(***************************************************************************)
(* C2 as amended: generate_tone(f1, f2, d) returns floor(44100 * d / 1000) *)
(* samples, and the buffer of generate_raw_data has the sum of these       *)
(* counts over the entries of the sequence.                                *)
(***************************************************************************)
C2_SampleCountIsFloor ==
    /\ tone_out.called =>
          /\ tone_out.exc = NoExc
          /\ Len(tone_out.value) = FloorSamples(tone_in.d)
    /\ (result.op = "generate" /\ result.exc = NoExc) =>
          Len(_raw_data.items) = SumFloorSamples(_dtmf_sequence.items)

\* a buffer of two tones has been generated whose durations make floor and
\* round differ
C2_Witness ==
    /\ result.op = "generate" /\ result.exc = NoExc
    /\ Len(_dtmf_sequence.items) = 2
    /\ \A i \in 1..2 : LET d == _dtmf_sequence.items[i].items[2].n
                       IN  FloorSamples(d) # RoundSamples(d)
    /\ Len(_raw_data.items) # SumRoundSamples(_dtmf_sequence.items)

(***************************************************************************)
(* C2 as claimed: the counts are round(44100 * d / 1000), rounded to the   *)
(* nearest integer.                                                        *)
(***************************************************************************)
C2_SampleCountIsRounded ==
    /\ tone_out.called =>
          /\ tone_out.exc = NoExc
          /\ Len(tone_out.value) = RoundSamples(tone_in.d)
    /\ (result.op = "generate" /\ result.exc = NoExc) =>
          Len(_raw_data.items) = SumRoundSamples(_dtmf_sequence.items)

(***************************************************************************)
(* C3: create_dtmf_wave_file with a malformed candidate signals an error,  *)
(* produces no PCM buffer and writes no container, whatever the instance   *)
(* held before.                                                            *)
(***************************************************************************)
C3_MalformedRejected ==
    [][\A c \in MalformedInputs, io \in IOOutcomes :
          CreateDtmfWaveFile(c, io) =>
              /\ result'.exc # NoExc
              /\ _raw_data' = _raw_data
              /\ file' = file]_vars

(***************************************************************************)
(* C4: create_dtmf_wave_file with a structurally valid sequence holding a  *)
(* symbol outside the keypad set, at any position, fails with KeyError:    *)
(* the destination is not opened, the file is left as it was, and          *)
(* _raw_data keeps the value it had before the call.                       *)
(***************************************************************************)
C4_UnknownSymbolFailsWhole ==
    [][(/\ result'.op = "create"
        /\ result'.assigned
        /\ IsToneSequence(_dtmf_sequence')
        /\ HasUnknownSymbol(_dtmf_sequence'))
       => (/\ result'.exc = "KeyError"
           /\ ~result'.opened
           /\ file' = file
           /\ _raw_data' = _raw_data)]_vars

\* the call failed on a sequence whose second entry is the unknown one, on
\* an instance that held generated data and had written a file
C4_Witness ==
    /\ result.op = "create" /\ result.assigned
    /\ result.exc = "KeyError"
    /\ Len(_dtmf_sequence.items) = 2
    /\ _dtmf_sequence.items[1].items[1].s \in KeypadSymbols
    /\ _dtmf_sequence.items[2].items[1].s \notin KeypadSymbols
    /\ _raw_data # None
    /\ Len(_raw_data.items) > 0
    /\ file.exists

(***************************************************************************)
(* C5: the buffer of generate_raw_data is the tones of the entries, one    *)
(* after the other in sequence order: the tone of entry j lies at the      *)
(* offset given by the lengths of the tones before it, and nothing else    *)
(* is in the buffer.                                                       *)
(***************************************************************************)
C5_ConcatenationInOrder ==
    (result.op = "generate" /\ result.exc = NoExc) =>
        LET items == _dtmf_sequence.items
            raw == _raw_data.items
        IN  /\ Len(raw) = Offset(items, Len(items) + 1)
            /\ \A j \in 1..Len(items) :
                  SubSeq(raw, Offset(items, j) + 1, Offset(items, j + 1))
                      = ToneOf(items[j])

\* a buffer of two different, non-empty tones has been generated
C5_Witness ==
    /\ result.op = "generate" /\ result.exc = NoExc
    /\ Len(_dtmf_sequence.items) = 2
    /\ ToneOf(_dtmf_sequence.items[1]) # <<>>
    /\ ToneOf(_dtmf_sequence.items[2]) # <<>>
    /\ ToneOf(_dtmf_sequence.items[1]) # ToneOf(_dtmf_sequence.items[2])

(***************************************************************************)
(* C6: while no sequence has been accepted, generate_raw_data raises       *)
(* AttributeError and leaves _raw_data as it was, and save_wave_file with  *)
(* no generated data raises the same error without opening the             *)
(* destination, so that no file exists afterwards.                         *)
(***************************************************************************)
C6_NoSequencePrecondition ==
    [][/\ (alive /\ _dtmf_sequence = None /\ result'.op = "generate") =>
              /\ result'.exc = "AttributeError"
              /\ _raw_data' = _raw_data
       /\ (alive /\ _dtmf_sequence = None /\ _raw_data = None
             /\ result'.op = "save") =>
              /\ result'.exc = "AttributeError"
              /\ ~result'.opened
              /\ _raw_data' = _raw_data
              /\ file' = file
              /\ ~file'.exists]_vars

\* save_wave_file has failed on an instance without a sequence
C6_Witness ==
    /\ alive
    /\ _dtmf_sequence = None
    /\ _raw_data = None
    /\ result.op = "save"
    /\ result.exc = "AttributeError"
    /\ ~file.exists

(***************************************************************************)
(* C7: dtmf_sequence_is_valid returns True when the candidate is a list of *)
(* 2-element (str, int) list or tuple records, and returns False, without  *)
(* raising, for every other candidate.                                     *)
(***************************************************************************)
C7_ValidatorDecides ==
    valid_out.called =>
        valid_out.ret = (IF IsToneSequence(valid_in) THEN "True" ELSE "False")

(***************************************************************************)
(* C8: when a call of save_wave_file fails after the destination has been  *)
(* opened, no half-written file is left: the destination holds no file or  *)
(* a complete one.                                                         *)
(***************************************************************************)
C8_NoPartialFile ==
    (IsSaveCall /\ result.opened /\ result.exc # NoExc) =>
        (~file.exists \/ CompleteFile(file))

(***************************************************************************)
(* C9: a constructor given both inputs uses the parsed string when the     *)
(* string parses and is accepted, and otherwise validates input_list and   *)
(* uses it when it is valid.                                               *)
(***************************************************************************)
C9_StringThenList ==
    [][\A s \in TextInputs, l \in WellFormedInputs :
          Construct(s, l) =>
              IF json_loads(s.s).exc = NoExc /\ IsToneSequence(json_loads(s.s).value)
              THEN alive' /\ _dtmf_sequence' = json_loads(s.s).value
              ELSE alive' /\ _dtmf_sequence' = l]_vars

(***************************************************************************)
(* C10: whenever _raw_data is not None it is the synthesis of the sequence *)
(* the instance holds.                                                     *)
(***************************************************************************)
C10_RawDataIsCurrent ==
    _raw_data # None =>
        generate_raw_data(_dtmf_sequence, None) = [exc |-> NoExc, raw |-> _raw_data]

====
